---------------------------- MODULE Spec2Model ----------------------------
(***************************************************************************)
(* Model of the VALERA pre-production suite: the AI gateway                *)
(* (services/geminiService: API key lifecycle, cached client, retry        *)
(* wrapper, the five generation operations) and the application shell     *)
(* (App.tsx: boot, autosave).                                              *)
(*                                                                         *)
(* Strings are sequences of tokens.  A key is a sequence of one-character  *)
(* tokens; an error message is a sequence of tokens in which every digit   *)
(* is a token of its own, so that String.prototype.includes('429') is a    *)
(* search for the subsequence <<"4","2","9">>.  The JavaScript values      *)
(* undefined and null are the one-token sequence Undefined, which no       *)
(* string of the model equals.  An absent error status is the number 0.    *)
(***************************************************************************)
EXTENDS Integers, Sequences, FiniteSets, TLC

VARIABLES
    envKey,          \* process.env.API_KEY
    stored,          \* localStorage['valera_api_key']
    clientInstance,  \* the cached client of geminiService
    call,            \* the gateway call in flight
    apiLog,          \* history: the last two calls of saveApiKey/clearApiKey/getClient
    shellPc,         \* where the boot of App stands
    isLoading,       \* App state
    hasKey,          \* App state
    projectData,     \* App state: the in-memory project document
    idb,             \* the persisted document: <<>> or <<doc>>
    pending,         \* documents handed to saveProjectToIDB and not yet written
    saveLog,         \* history: the autosaves of this page load
    edits,           \* history: number of edits of this page load
    restores,        \* history: loads that replaced a chat history, up to MaxRestores;
                     \* a load of a document not saved since the last such load
                     \* is not counted again
    savedSince,      \* history: a save was written since the last counted load
    export,          \* the export handler in progress and what it has produced
    now,             \* what Date.now() returns
    notification,    \* App state: the notification on display
    timers,          \* the timers showNotify has started and that have not fired
    notified         \* history: number of showNotify calls of this page load

gatewayVars == <<envKey, stored, clientInstance, call, apiLog>>

shellVars ==
    <<shellPc, isLoading, hasKey, projectData, idb, pending, saveLog, edits, restores,
      savedSince>>

exportVars == <<export>>

\* the clock and the notification on display; the export handlers record
\* their showNotify calls in export.notes, the display itself is followed
\* for showNotify on its own
uiVars == <<now, notification, timers, notified>>

vars == <<envKey, stored, clientInstance, call, apiLog,
          shellPc, isLoading, hasKey, projectData, idb, pending, saveLog, edits, restores,
          savedSince, export, now, notification, timers, notified>>

-----------------------------------------------------------------------------
(* Strings *)

Undefined == <<"undefined">>

Whitespace == {" "}

RECURSIVE TrimStart(_)
TrimStart(s) ==
    IF s = <<>> THEN <<>>
    ELSE IF Head(s) \in Whitespace THEN TrimStart(Tail(s)) ELSE s

RECURSIVE TrimEnd(_)
TrimEnd(s) ==
    IF s = <<>> THEN <<>>
    ELSE IF s[Len(s)] \in Whitespace THEN TrimEnd(SubSeq(s, 1, Len(s) - 1)) ELSE s

\* String.prototype.trim
Trim(s) == TrimEnd(TrimStart(s))

\* String.prototype.includes
Includes(s, sub) ==
    \E i \in 1..(Len(s) - Len(sub) + 1) : SubSeq(s, i, i + Len(sub) - 1) = sub

\* JavaScript truthiness of a string-or-undefined value
Truthy(s) == s # Undefined /\ s # <<>>

-----------------------------------------------------------------------------
(* Credentials and the cached client *)

Null == [built |-> FALSE, apiKey |-> Undefined]

\* new GoogleGenAI({ apiKey })
GoogleGenAI(k) == [built |-> TRUE, apiKey |-> k]

\* envKey && envKey.trim().length > 0
EnvPresent(e) == Truthy(e) /\ Len(Trim(e)) > 0

hasValidKey(e, l) == EnvPresent(e) \/ (Truthy(l) /\ Len(Trim(l)) > 0)

\* the apiKey of getClient, lines 43-47
ResolveApiKey(e, l) == IF EnvPresent(e) THEN e ELSE l

MissingKeyError ==
    [status |-> 0, message |-> <<"API Key is missing. Please set it in Settings.">>]

NoError == [status |-> 0, message |-> Undefined]

\* getClient without the check of lines 49-51
getClient_Unchecked(inst, e, l) ==
    IF inst.built
    THEN [ok |-> TRUE, client |-> inst, inst |-> inst, resolved |-> FALSE, err |-> NoError]
    ELSE [ok |-> TRUE, client |-> GoogleGenAI(ResolveApiKey(e, l)),
          inst |-> GoogleGenAI(ResolveApiKey(e, l)), resolved |-> TRUE, err |-> NoError]

\* getClient as a function of the state: what it returns or throws, and the
\* cached client it leaves behind
getClient(inst, e, l) ==
    IF inst.built
    THEN [ok |-> TRUE, client |-> inst, inst |-> inst, resolved |-> FALSE, err |-> NoError]
    ELSE IF ~Truthy(ResolveApiKey(e, l))
         THEN [ok |-> FALSE, client |-> Null, inst |-> inst, resolved |-> TRUE,
               err |-> MissingKeyError]
         ELSE [ok |-> TRUE, client |-> GoogleGenAI(ResolveApiKey(e, l)),
               inst |-> GoogleGenAI(ResolveApiKey(e, l)), resolved |-> TRUE,
               err |-> NoError]

\* The last two calls of the key-management API, newest last
Event(name, arg, ret, resolved) ==
    [name |-> name, arg |-> arg, ret |-> ret, resolved |-> resolved]

Log(log, ev) == IF Len(log) < 2 THEN Append(log, ev) ELSE <<log[2], ev>>

-----------------------------------------------------------------------------
(* retryOperation *)

DefaultRetries == 3
DefaultDelay == 2000

T429 == <<"4", "2", "9">>
T503 == <<"5", "0", "3">>

MsgIncludes(err, sub) == err.message # Undefined /\ Includes(err.message, sub)

isQuota(err) == MsgIncludes(err, T429) \/ err.status = 429

isServer(err) == MsgIncludes(err, T503) \/ err.status = 503 \/ err.status = 500

\* the condition of line 67
ShouldRetry(err, retries) == (isQuota(err) \/ isServer(err)) /\ retries > 0

\* the arguments of the recursive call of line 71
NextRetries(retries) == retries - 1

\* linear instead of exponential backoff
NextDelay_Linear(delay) == delay + 2000

\* no backoff at all
NextDelay_Same(delay) == delay

NextDelay(delay) == delay * 2


-----------------------------------------------------------------------------
(* Upstream responses and the results of the five generation operations *)

Ops == {"sendDirectorMessage", "enhancePrompt", "generateImage",
        "generateVoiceDirection", "generateStoryboard"}

\* operations that call getClient inside their try block (lines 227, 341)
GuardedOps == {"enhancePrompt", "generateVoiceDirection"}

\* a response: candidates is <<>> when the field is absent and <<list>> when
\* it is the array list; so are content of a candidate and parts of a content
NoResponse == [text |-> Undefined, candidates |-> <<>>]

\* a candidate with content.parts
Candidate(parts) == [content |-> <<[parts |-> <<parts>>]>>]

\* a candidate without content
NoContent == [content |-> <<>>]

\* a response part: text only, or an inline image payload
TextPart == [inlineData |-> Undefined]
ImagePart(d) == [inlineData |-> d]

\* JSON.parse of the storyboard text: the array texts of the model are
\* "[" scene* "]"; anything else is a SyntaxError
JSONValid(text) ==
    /\ Len(text) >= 2
    /\ Head(text) = "["
    /\ text[Len(text)] = "]"
    /\ \A i \in 2..(Len(text) - 1) : text[i] = "{}"

JSONParse(text) == SubSeq(text, 2, Len(text) - 1)

Resolve(tag, data) == [kind |-> "resolve", tag |-> tag, data |-> data, err |-> NoError]
Reject(err) == [kind |-> "reject", tag |-> "error", data |-> <<>>, err |-> err]
NoResult == [kind |-> "none", tag |-> "none", data |-> <<>>, err |-> NoError]

QuotaImageError ==
    [status |-> 0,
     message |-> <<"API Quota Limit (", "4", "2", "9", "). Please wait a minute and try again.">>]

NoImageError == [status |-> 0, message |-> <<"No image data returned from Gemini.">>]

\* reading candidates[0].content of an empty candidates array
CandidateTypeError ==
    [status |-> 0,
     message |-> <<"Cannot read properties of undefined (reading 'content')">>]

\* response.candidates is an array without a first element
NoFirstCandidate(resp) == resp.candidates # <<>> /\ resp.candidates[1] = <<>>

\* response.candidates && candidates[0].content && candidates[0].content.parts
HasParts(resp) ==
    /\ resp.candidates # <<>>
    /\ resp.candidates[1][1].content # <<>>
    /\ resp.candidates[1][1].content[1].parts # <<>>

\* the parts the loop goes through
Parts(resp) == IF HasParts(resp) THEN resp.candidates[1][1].content[1].parts[1] ELSE <<>>

InlineParts(resp) == {i \in 1..Len(Parts(resp)) : Truthy(Parts(resp)[i].inlineData)}

FirstInline(resp) == CHOOSE i \in InlineParts(resp) : \A j \in InlineParts(resp) : i <= j

\* `data:image/png;base64,${data}`
DataUrl(data) == <<"data:image/png;base64", ",">> \o data

\* a storyboard whose parse error escapes
OnStoryboardText_Throwing(input, text) ==
    IF JSONValid(text) THEN Resolve("scenes", JSONParse(text))
    ELSE Reject([status |-> 0, message |-> <<"SyntaxError">>])

\* the catch blocks without the 429 branch of generateImage (lines 332-334)
OnFailure_Rethrow(op, input, err) ==
    CASE op = "sendDirectorMessage" ->
            IF isQuota(err) THEN Resolve("quotaMessage", <<>>)
            ELSE Resolve("actionCutError",
                         IF Truthy(err.message) THEN err.message ELSE <<"Unknown API Error">>)
      [] op = "enhancePrompt" -> Resolve("text", input)
      [] op = "generateImage" -> Reject(err)
      [] op = "generateVoiceDirection" -> Resolve("text", <<>>)
      [] op = "generateStoryboard" -> Resolve("scenes", <<>>)

\* what the operation's catch block makes of an error thrown in its try block
OnFailure(op, input, err) ==
    CASE op = "sendDirectorMessage" ->
            IF isQuota(err) THEN Resolve("quotaMessage", <<>>)
            ELSE Resolve("actionCutError",
                         IF Truthy(err.message) THEN err.message ELSE <<"Unknown API Error">>)
      [] op = "enhancePrompt" -> Resolve("text", input)
      [] op = "generateImage" ->
            IF isQuota(err) THEN Reject(QuotaImageError) ELSE Reject(err)
      [] op = "generateVoiceDirection" -> Resolve("text", <<>>)
      [] op = "generateStoryboard" -> Resolve("scenes", <<>>)

\* return JSON.parse(response.text) inside the try block of generateStoryboard
OnStoryboardText(input, text) ==
    IF JSONValid(text) THEN Resolve("scenes", JSONParse(text))
    ELSE OnFailure("generateStoryboard", input, [status |-> 0, message |-> <<"SyntaxError">>])

\* what the operation makes of the response retryOperation returned
OnSuccess(op, input, resp) ==
    CASE op = "sendDirectorMessage" ->
            IF Truthy(resp.text) THEN Resolve("text", resp.text)
            ELSE Resolve("emptyResponseMessage", <<>>)
      [] op = "enhancePrompt" ->
            Resolve("text", IF Truthy(resp.text) THEN resp.text ELSE input)
      [] op = "generateImage" ->
            IF NoFirstCandidate(resp) THEN OnFailure(op, input, CandidateTypeError)
            ELSE IF InlineParts(resp) # {}
            THEN Resolve("dataUrl", DataUrl(Parts(resp)[FirstInline(resp)].inlineData))
            ELSE OnFailure(op, input, NoImageError)
      [] op = "generateVoiceDirection" ->
            Resolve("text", IF Truthy(resp.text) THEN resp.text ELSE <<>>)
      [] op = "generateStoryboard" ->
            IF Truthy(resp.text) THEN OnStoryboardText(input, resp.text)
            ELSE Resolve("scenes", <<>>)

\* every operation calling getClient before its try block
OnMissingKey_Unguarded(op, input, err) == Reject(err)

\* getClient threw: inside the try block the operation's catch handles it,
\* outside it the returned promise rejects
OnMissingKey(op, input, err) ==
    IF op \in GuardedOps THEN OnFailure(op, input, err) ELSE Reject(err)

-----------------------------------------------------------------------------
(* One gateway call in flight *)

IdleCall ==
    [op |-> "none", pc |-> "idle", ai |-> Null, input |-> <<>>,
     retries |-> 0, delay |-> 0, attempts |-> 0, waits |-> <<>>,
     clients |-> <<>>, outcomes |-> <<>>, settled |-> <<>>, result |-> NoResult,
     request |-> <<>>]

\* how one attempt of the operation ended
Failed(err) == [ok |-> FALSE, err |-> err, resp |-> NoResponse]
Succeeded(resp) == [ok |-> TRUE, err |-> NoError, resp |-> resp]

\* Fields of call: ai is the client captured by the operation() closure;
\* retries and delay are the arguments of the current retryOperation frame;
\* attempts, waits, clients and outcomes are the history of the call (upstream
\* requests issued, delays waited, the client each request went through, how
\* each attempt ended); settled is <<o>> once
\* retryOperation has returned or thrown o to the operation; result is what
\* the operation hands to its caller; request is <<>> or <<r>> with r what the
\* operation was given and the contents it built for the upstream request.

\* The operation is invoked: getClient, then (all synchronously)
\* retryOperation with the default policy issues the first upstream request.
StartCallWith(op, input, request) ==
    /\ call.pc = "idle"
    /\ LET g == getClient(clientInstance, envKey, stored) IN
         /\ clientInstance' = g.inst
         /\ apiLog' = Log(apiLog, Event("getClient", <<>>, g.client, g.resolved))
         /\ call' = IF g.ok
                    THEN [IdleCall EXCEPT !.op = op, !.pc = "attempt", !.ai = g.client,
                                          !.input = input, !.retries = DefaultRetries,
                                          !.delay = DefaultDelay, !.attempts = 1,
                                          !.clients = <<g.client>>, !.request = request]
                    ELSE [IdleCall EXCEPT !.op = op, !.pc = "done", !.input = input,
                                          !.result = OnMissingKey(op, input, g.err)]
    /\ UNCHANGED <<envKey, stored>>
    /\ UNCHANGED shellVars
    /\ UNCHANGED exportVars
    /\ UNCHANGED uiVars

\* an operation whose request is not looked into
StartCall(op, input) == StartCallWith(op, input, <<>>)

\* operation() rejects with err: the catch block of retryOperation
AttemptFails(err) ==
    /\ call.pc = "attempt"
    /\ call' = IF ShouldRetry(err, call.retries)
               THEN [call EXCEPT !.pc = "waiting",
                                 !.waits = Append(@, call.delay),
                                 !.outcomes = Append(@, Failed(err))]
               ELSE [call EXCEPT !.pc = "done",
                                 !.outcomes = Append(@, Failed(err)),
                                 !.settled = <<Failed(err)>>,
                                 !.result = OnFailure(call.op, call.input, err)]
    /\ UNCHANGED <<envKey, stored, clientInstance, apiLog>>
    /\ UNCHANGED shellVars
    /\ UNCHANGED exportVars
    /\ UNCHANGED uiVars

\* operation() resolves with resp
AttemptSucceeds(resp) ==
    /\ call.pc = "attempt"
    /\ call' = [call EXCEPT !.pc = "done",
                            !.outcomes = Append(@, Succeeded(resp)),
                            !.settled = <<Succeeded(resp)>>,
                            !.result = OnSuccess(call.op, call.input, resp)]
    /\ UNCHANGED <<envKey, stored, clientInstance, apiLog>>
    /\ UNCHANGED shellVars
    /\ UNCHANGED exportVars
    /\ UNCHANGED uiVars

\* a retry whose operation() asks getClient again
WaitEnds_Reacquire ==
    /\ call.pc = "waiting"
    /\ LET g == getClient(clientInstance, envKey, stored) IN
         call' = [call EXCEPT !.pc = "attempt", !.retries = NextRetries(@),
                              !.delay = NextDelay(@), !.attempts = @ + 1,
                              !.ai = g.client, !.clients = Append(@, g.client)]
    /\ UNCHANGED <<envKey, stored, clientInstance, apiLog>>
    /\ UNCHANGED shellVars
    /\ UNCHANGED exportVars
    /\ UNCHANGED uiVars

\* the timer of wait(delay) fires: retryOperation(operation, retries - 1, delay * 2)
\* calls operation() again, whose closure holds the client of the first attempt
WaitEnds ==
    /\ call.pc = "waiting"
    /\ call' = [call EXCEPT !.pc = "attempt", !.retries = NextRetries(@),
                            !.delay = NextDelay(@), !.attempts = @ + 1,
                            !.clients = Append(@, call.ai)]
    /\ UNCHANGED <<envKey, stored, clientInstance, apiLog>>
    /\ UNCHANGED shellVars
    /\ UNCHANGED exportVars
    /\ UNCHANGED uiVars

\* the caller has taken the result
Return ==
    /\ call.pc = "done"
    /\ call' = IdleCall
    /\ UNCHANGED <<envKey, stored, clientInstance, apiLog>>
    /\ UNCHANGED shellVars
    /\ UNCHANGED exportVars
    /\ UNCHANGED uiVars

-----------------------------------------------------------------------------
(* Key management *)

\* localStorage and the cached client after saveApiKey(key)
SavedKey(key, l) == IF ~Truthy(key) \/ Trim(key) = <<>> THEN l ELSE Trim(key)

\* saveApiKey without line 26: the cached client is left as it was
SavedClient_Stale(key, inst) == inst

SavedClient(key, inst) ==
    IF ~Truthy(key) \/ Trim(key) = <<>> THEN inst ELSE GoogleGenAI(Trim(key))

saveApiKey(key) ==
    /\ apiLog' = Log(apiLog, Event("saveApiKey", key, Null, FALSE))
    /\ stored' = SavedKey(key, stored)
    /\ clientInstance' = SavedClient(key, clientInstance)
    /\ UNCHANGED <<envKey, call>>
    /\ UNCHANGED shellVars
    /\ UNCHANGED exportVars
    /\ UNCHANGED uiVars

\* localStorage and the cached client after clearApiKey()
ClearedKey == Undefined

\* clearApiKey without line 34
ClearedClient_Kept(inst) == inst

ClearedClient(inst) == Null

clearApiKey ==
    /\ apiLog' = Log(apiLog, Event("clearApiKey", <<>>, Null, FALSE))
    /\ stored' = ClearedKey
    /\ clientInstance' = ClearedClient(clientInstance)
    /\ UNCHANGED <<envKey, call>>
    /\ UNCHANGED shellVars
    /\ UNCHANGED exportVars
    /\ UNCHANGED uiVars

-----------------------------------------------------------------------------
(* The export handlers of the shell: state *)

\* Fields of export: kind is the handler running ("zip", "pdf", "pptx");
\* pc is "idle", "generating" (the handler is suspended at its await) or
\* "done"; doc is the projectData of the render the handler closed over;
\* entries are the files written into the JSZip object, in order; notes are
\* the messages the handler passed to showNotify, in order; downloads are
\* the files offered for download; generated tells that the awaited
\* generation resolved; failed that a step threw into the handler's catch
\* block; rethrown that the handler let an error escape.
\* useState(null) of notification
NoNotification == [n |-> 0, msg |-> <<>>, type |-> "", at |-> 0]

\* nothing on display, no timer running
UiAtRest ==
    /\ now = 0
    /\ notification = NoNotification
    /\ timers = <<>>
    /\ notified = 0

IdleExport ==
    [kind |-> "none", pc |-> "idle", doc |-> <<>>, entries |-> <<>>,
     notes |-> <<>>, downloads |-> <<>>, generated |-> FALSE, failed |-> FALSE,
     rethrown |-> FALSE]

\* the characters matched by [a-z0-9] under the i flag; without the u flag a
\* character beyond ASCII is never folded onto an ASCII one
Lower ==
    {"a", "b", "c", "d", "e", "f", "g", "h", "i", "j", "k", "l", "m",
     "n", "o", "p", "q", "r", "s", "t", "u", "v", "w", "x", "y", "z"}

Upper ==
    {"A", "B", "C", "D", "E", "F", "G", "H", "I", "J", "K", "L", "M",
     "N", "O", "P", "Q", "R", "S", "T", "U", "V", "W", "X", "Y", "Z"}

Digit == {"0", "1", "2", "3", "4", "5", "6", "7", "8", "9"}

AlphaNum == Lower \cup Upper \cup Digit

\* a replacement that only takes care of blanks
ReplaceNonAlnum_BlanksOnly(s) ==
    [i \in 1..Len(s) |-> IF s[i] = " " THEN "_" ELSE s[i]]

\* s.replace(/[^a-z0-9]/gi, '_'), one UTF-16 unit at a time
ReplaceNonAlnum(s) ==
    [i \in 1..Len(s) |-> IF s[i] \in AlphaNum THEN s[i] ELSE "_"]

\* a || b on strings
OrElse(a, b) == IF Truthy(a) THEN a ELSE b

DigitOf(n) == <<"0", "1", "2", "3", "4", "5", "6", "7", "8", "9">>[n + 1]

\* the decimal digits of a natural number, as a template literal prints it
RECURSIVE Decimal(_)
Decimal(n) ==
    IF n < 10 THEN <<DigitOf(n)>> ELSE Decimal(n \div 10) \o <<DigitOf(n % 10)>>

Asset == <<"A", "s", "s", "e", "t">>
ScenePrefix == <<"S", "c", "e", "n", "e", "_">>
Png == <<".", "p", "n", "g">>

\* safeName of a character
safeName(char) == ReplaceNonAlnum(OrElse(char.name, Asset))

\* safeTitle of the frame at position idx + 1 of the timeline
safeTitle(frame, idx) == ReplaceNonAlnum(OrElse(frame.title, ScenePrefix \o Decimal(idx + 1)))

\* `${safeName}.png`
CharacterFileName(char) == safeName(char) \o Png

\* `Scene_${idx+1}_${safeTitle}.png`
FrameFileName(frame, idx) ==
    ScenePrefix \o Decimal(idx + 1) \o <<"_">> \o safeTitle(frame, idx) \o Png

\* String.prototype.split on a one-character separator
RECURSIVE Split(_, _)
Split(s, sep) ==
    IF \A i \in 1..Len(s) : s[i] # sep THEN <<s>>
    ELSE LET k == CHOOSE i \in 1..Len(s) : s[i] = sep /\ \A j \in 1..(i - 1) : s[j] # sep
         IN  <<SubSeq(s, 1, k - 1)>> \o Split(SubSeq(s, k + 1, Len(s)), sep)

\* image.split(',')[1]: the base64 payload of a data URL
Base64Of(image) ==
    LET parts == Split(image, ",") IN IF Len(parts) >= 2 THEN parts[2] ELSE Undefined

ImagesFolder == <<"i", "m", "a", "g", "e", "s", "/">>

\* zip.file(path, data): the archive holds one entry per path, a second write
\* to a path replaces the first
ZipFile(zip, path, data) ==
    IF \E i \in 1..Len(zip) : zip[i].path = path
    THEN [i \in 1..Len(zip) |-> IF zip[i].path = path THEN [path |-> path, data |-> data]
                                                     ELSE zip[i]]
    ELSE Append(zip, [path |-> path, data |-> data])

RECURSIVE WriteAll(_, _)
WriteAll(zip, writes) ==
    IF writes = <<>> THEN zip
    ELSE WriteAll(ZipFile(zip, Head(writes).path, Head(writes).data), Tail(writes))

\* the image writes of the references, in order
CharacterWrites(doc) ==
    LET all == [i \in 1..Len(doc.references) |->
                   LET char == doc.references[i] IN
                   IF Truthy(char.image)
                   THEN [write |-> TRUE, path |-> ImagesFolder \o CharacterFileName(char),
                         data |-> Base64Of(char.image)]
                   ELSE [write |-> FALSE, path |-> <<>>, data |-> Undefined]]
    IN  SelectSeq(all, LAMBDA w : w.write)

\* the image writes of the timeline, in order
FrameWrites(doc) ==
    LET all == [i \in 1..Len(doc.timeline) |->
                   LET frame == doc.timeline[i] IN
                   IF Truthy(frame.image)
                   THEN [write |-> TRUE, path |-> ImagesFolder \o FrameFileName(frame, i - 1),
                         data |-> Base64Of(frame.image)]
                   ELSE [write |-> FALSE, path |-> <<>>, data |-> Undefined]]
    IN  SelectSeq(all, LAMBDA w : w.write)

\* a number in at least width digits, zero-padded on the left
RECURSIVE Pad(_, _)
Pad(digits, width) == IF Len(digits) >= width THEN digits ELSE Pad(<<"0">> \o digits, width)

\* HH:MM:SS,mmm of a time in milliseconds
FormatTime(ms) ==
    Pad(Decimal(ms \div 3600000), 2) \o <<":">> \o Pad(Decimal((ms % 3600000) \div 60000), 2)
        \o <<":">> \o Pad(Decimal((ms % 60000) \div 1000), 2)
        \o <<",">> \o Pad(Decimal(ms % 1000), 3)

\* the cues of frames from a running clock (seconds) and a cue number on
RECURSIVE SrtCues(_, _, _)
SrtCues(frames, clock, n) ==
    IF frames = <<>> THEN <<>>
    ELSE LET frame == Head(frames) IN
         IF Truthy(frame.dialogue)
         THEN <<[index |-> n, start |-> FormatTime(1000 * clock),
                 end |-> FormatTime(1000 * (clock + frame.duration)),
                 text |-> frame.dialogue]>>
              \o SrtCues(Tail(frames), clock + frame.duration, n + 1)
         ELSE SrtCues(Tail(frames), clock + frame.duration, n)

\* a subtitle file whose clock skips the frames without dialogue
generateSRT_SpokenOnly(doc) ==
    SrtCues(SelectSeq(doc.timeline, LAMBDA frame : Truthy(frame.dialogue)), 0, 1)

\* generateSRT(projectData): the cues of the subtitle file
generateSRT(doc) == SrtCues(doc.timeline, 0, 1)

\* the writes of handleExportZip into the archive, in program order
ZipWrites(doc) ==
    <<[path |-> ImagesFolder, data |-> <<>>]>>
    \o CharacterWrites(doc)
    \o FrameWrites(doc)
    \o <<[path |-> <<"project_data.json">>, data |-> <<doc>>],
         [path |-> <<"import_project.py">>, data |-> <<"generateDaVinciPythonScript">>],
         [path |-> <<"timeline.fcpxml">>, data |-> <<"generateDaVinciXML">>],
         [path |-> <<"timeline.edl">>, data |-> <<"generateEDL">>],
         [path |-> <<"subtitles.srt">>, data |-> generateSRT(doc)],
         [path |-> <<"README_IMPORT.txt">>, data |-> <<"installText">>]>>

\* showNotify(msg, type)
Note(msg, type) == [msg |-> msg, type |-> type]

GeneratingNote(kind) ==
    CASE kind = "zip" -> Note("Generating Export Package...", "info")
      [] kind = "pdf" -> Note("Generating PDF Report...", "info")
      [] kind = "pptx" -> Note("Generating Presentation...", "info")

SuccessNote(kind) ==
    CASE kind = "zip" -> Note("Master Package Exported", "success")
      [] kind = "pdf" -> Note("PDF Exported", "success")
      [] kind = "pptx" -> Note("PPTX Exported", "success")

FailureNote(kind) ==
    CASE kind = "zip" -> Note("Export Failed (Check Console)", "info")
      [] kind = "pdf" -> Note("PDF Generation Failed", "info")
      [] kind = "pptx" -> Note("PPTX Generation Failed", "info")

DownloadName(kind) ==
    CASE kind = "zip" -> "Valera_Project_<date>.zip"
      [] kind = "pdf" -> "valera_report.pdf"

\* a catch block that offers what was written so far
OnExportFailure_Partial(e) ==
    [e EXCEPT !.pc = "done", !.failed = TRUE,
              !.downloads = Append(@, DownloadName("zip")),
              !.notes = Append(@, FailureNote(e.kind))]

\* a handler without a catch block
OnExportFailure_Uncaught(e) ==
    [e EXCEPT !.pc = "done", !.failed = TRUE, !.rethrown = TRUE]

\* the catch block of a handler: console.error(e); showNotify(failure)
OnExportFailure(e) ==
    [e EXCEPT !.pc = "done", !.failed = TRUE, !.notes = Append(@, FailureNote(e.kind))]

\* the try block of a handler past its await: download, showNotify(success)
OnExportSuccess(e) ==
    [e EXCEPT !.pc = "done",
              !.downloads = IF e.kind = "pptx" THEN @ ELSE Append(@, DownloadName(e.kind)),
              !.notes = Append(@, SuccessNote(e.kind))]

\* the handler up to its first statement inside try
ExportStarted(kind, doc) ==
    [IdleExport EXCEPT !.kind = kind, !.pc = "generating", !.doc = <<doc>>,
                       !.notes = <<GeneratingNote(kind)>>]

-----------------------------------------------------------------------------
(* The application shell: boot and autosave *)

MaxEdits == 2
MaxFrames == 2
MaxChat == 2
MaxPending == 2
MaxRestores == 2

\* titles and names are sequences of one-character tokens
DemoSceneTitle == <<"D", "e", "m", "o", " ", "S", "c", "e", "n", "e">>
IntroTitle == <<"I", "n", "t", "r", "o">>

DefaultDuration == 4

\* a TimelineFrame: image is Undefined (null) or a data URL
TimelineFrame(title, image, duration, dialogue) ==
    [title |-> title, image |-> image, duration |-> duration, dialogue |-> dialogue]

\* a frame as the timeline editor adds it: no image, no dialogue
Frame(title) == TimelineFrame(title, Undefined, DefaultDuration, <<>>)

\* a Character (character, location or item) of the asset lab
Character(name, image) == [name |-> name, image |-> image]

INITIAL_VALERA_MESSAGES == <<[role |-> "model", text |-> "intro"]>>

INITIAL_PROJECT_STATE ==
    [timeline |-> <<Frame(DemoSceneTitle)>>, references |-> <<>>,
     directorHistory |-> INITIAL_VALERA_MESSAGES]

UserMessage == [role |-> "user", text |-> "hi"]

Titles == {DemoSceneTitle, IntroTitle}

\* the autosave effect without its condition
AutosaveEffect_Ungated(doc, loading, key) ==
    /\ saveLog' = Append(saveLog, [doc |-> doc, isLoading |-> loading, hasKey |-> key])
    /\ pending' = Append(pending, doc)

\* an autosave effect that does not depend on projectData: it saves when
\* the main app appears and not after the edits that follow
AutosaveEffect_FirstOnly(doc, loading, key) ==
    IF ~loading /\ key /\ saveLog = <<>>
    THEN /\ saveLog' = Append(saveLog, [doc |-> doc, isLoading |-> loading, hasKey |-> key])
         /\ pending' = Append(pending, doc)
    ELSE UNCHANGED <<saveLog, pending>>

\* an autosave effect that does not wait for the end of the loading
AutosaveEffect_KeyOnly(doc, loading, key) ==
    IF key
    THEN /\ saveLog' = Append(saveLog, [doc |-> doc, isLoading |-> loading, hasKey |-> key])
         /\ pending' = Append(pending, doc)
    ELSE UNCHANGED <<saveLog, pending>>

\* the autosave effect, run after a render in which projectData, isLoading
\* or hasKey changed
AutosaveEffect(doc, loading, key) ==
    IF ~loading /\ key
    THEN /\ saveLog' = Append(saveLog, [doc |-> doc, isLoading |-> loading, hasKey |-> key])
         /\ pending' = Append(pending, doc)
    ELSE UNCHANGED <<saveLog, pending>>

\* RESTORE GREETING FIX of the init effect
RestoreGreeting(data) ==
    LET isDemoProject == Len(data.timeline) = 1 /\ data.timeline[1].title = DemoSceneTitle
        hasEmptyHistory == Len(data.directorHistory) = 0
    IN  IF isDemoProject \/ hasEmptyHistory
        THEN [data EXCEPT !.directorHistory = INITIAL_VALERA_MESSAGES]
        ELSE data

\* an init effect that goes on to load without a key
Mount_Unchecked ==
    /\ shellPc = "mount"
    /\ hasKey' = TRUE
    /\ isLoading' = isLoading
    /\ shellPc' = "loading"
    /\ AutosaveEffect(projectData, isLoading', hasKey')
    /\ UNCHANGED <<projectData, idb, edits, restores, savedSince>>
    /\ UNCHANGED gatewayVars
    /\ UNCHANGED exportVars
    /\ UNCHANGED uiVars

\* first render and the init effect up to the start of the load
Mount ==
    /\ shellPc = "mount"
    /\ IF ~hasValidKey(envKey, stored)
       THEN /\ isLoading' = FALSE
            /\ hasKey' = FALSE
            /\ shellPc' = "auth"
       ELSE /\ hasKey' = TRUE
            /\ isLoading' = isLoading
            /\ shellPc' = "loading"
    /\ AutosaveEffect(projectData, isLoading', hasKey')
    /\ UNCHANGED <<projectData, idb, edits, restores, savedSince>>
    /\ UNCHANGED gatewayVars
    /\ UNCHANGED exportVars
    /\ UNCHANGED uiVars

\* loadProjectFromIDB() resolves: the .then callback of the init effect
LoadResolves ==
    /\ shellPc = "loading"
    /\ projectData' = IF idb # <<>> THEN RestoreGreeting(idb[1]) ELSE INITIAL_PROJECT_STATE
    /\ IF idb # <<>> /\ RestoreGreeting(idb[1]) # idb[1] /\ (restores = 0 \/ savedSince)
       THEN /\ restores' = IF restores < MaxRestores THEN restores + 1 ELSE restores
            /\ savedSince' = FALSE
       ELSE UNCHANGED <<restores, savedSince>>
    /\ shellPc' = "splash"
    /\ AutosaveEffect(projectData', isLoading, hasKey)
    /\ UNCHANGED <<isLoading, hasKey, idb, edits>>
    /\ UNCHANGED gatewayVars
    /\ UNCHANGED exportVars
    /\ UNCHANGED uiVars

\* loadProjectFromIDB() rejects, or its .then callback throws on a stored
\* value without timeline: the promise chain has no catch, the timer that
\* ends the loading is never started
LoadFails ==
    /\ shellPc = "loading"
    /\ shellPc' = "stalled"
    /\ UNCHANGED <<isLoading, hasKey, projectData, idb, pending, saveLog, edits, restores,
                   savedSince>>
    /\ UNCHANGED gatewayVars
    /\ UNCHANGED exportVars
    /\ UNCHANGED uiVars

\* the 2000 ms timer of the init effect fires
SplashTimer ==
    /\ shellPc = "splash"
    /\ Len(pending) < MaxPending
    /\ isLoading' = FALSE
    /\ shellPc' = "ready"
    /\ AutosaveEffect(projectData, isLoading', hasKey)
    /\ UNCHANGED <<hasKey, projectData, idb, edits, restores, savedSince>>
    /\ UNCHANGED gatewayVars
    /\ UNCHANGED exportVars
    /\ UNCHANGED uiVars

\* the editing surfaces are rendered only when neither the auth screen nor
\* the splash screen is
MainAppShown == ~(~isLoading /\ ~hasKey) /\ ~isLoading

\* a state updater replaces the document: setProjectData, then the effect
Updater(doc) ==
    /\ MainAppShown
    /\ edits < MaxEdits
    /\ Len(pending) < MaxPending
    /\ doc # projectData
    /\ projectData' = doc
    /\ edits' = edits + 1
    /\ AutosaveEffect(projectData', isLoading, hasKey)
    /\ UNCHANGED <<shellPc, isLoading, hasKey, idb, restores, savedSince>>
    /\ UNCHANGED gatewayVars
    /\ UNCHANGED exportVars

\* a state updater of a handler that shows no notification
SetProjectData(doc) ==
    /\ Updater(doc)
    /\ UNCHANGED uiVars

\* updateTimeline with an added frame
AddFrame(title) ==
    /\ Len(projectData.timeline) < MaxFrames
    /\ SetProjectData([projectData EXCEPT !.timeline = Append(@, Frame(title))])

\* updateTimeline with the last frame deleted
DeleteFrame ==
    /\ Len(projectData.timeline) > 0
    /\ SetProjectData([projectData EXCEPT
                          !.timeline = SubSeq(@, 1, Len(@) - 1)])

\* onUpdateDirectorMessages with an appended chat turn
AppendChat ==
    /\ Len(projectData.directorHistory) < MaxChat
    /\ SetProjectData([projectData EXCEPT !.directorHistory = Append(@, UserMessage)])

\* the write of the oldest outstanding saveProjectToIDB reaches the database
SaveCompletes ==
    /\ pending # <<>>
    /\ idb' = <<Head(pending)>>
    /\ pending' = Tail(pending)
    /\ savedSince' = TRUE
    /\ UNCHANGED <<shellPc, isLoading, hasKey, projectData, saveLog, edits, restores>>
    /\ UNCHANGED gatewayVars
    /\ UNCHANGED exportVars
    /\ UNCHANGED uiVars

\* window.location.reload(): module and component state start afresh
FreshPage ==
    /\ shellPc' = "mount"
    /\ isLoading' = TRUE
    /\ hasKey' = FALSE
    /\ projectData' = INITIAL_PROJECT_STATE
    /\ saveLog' = <<>>
    /\ edits' = 0
    /\ clientInstance' = Null
    /\ call' = IdleCall
    /\ apiLog' = <<>>
    /\ export' = IdleExport
    /\ notification' = NoNotification
    /\ timers' = <<>>
    /\ notified' = 0
    /\ UNCHANGED <<envKey, idb, pending, restores, savedSince, now>>

MinKeyLength == 10

\* handleSaveKey of the auth screen
handleSaveKey(inputKey) ==
    /\ ~isLoading /\ ~hasKey
    /\ shellPc = "auth"
    /\ Len(Trim(inputKey)) > MinKeyLength
    /\ stored' = SavedKey(inputKey, stored)
    /\ FreshPage

\* handleClearKey of the settings panel, confirmed
handleClearKey ==
    /\ MainAppShown
    /\ stored' = ClearedKey
    /\ FreshPage

\* the user reloads the page
Reload ==
    /\ shellPc # "mount"
    /\ stored' = stored
    /\ FreshPage


-----------------------------------------------------------------------------
(* The export handlers of the shell: steps *)

\* the export buttons belong to the main app, one handler runs at a time
CanExport == MainAppShown /\ export.pc # "generating"

\* handleExportZip up to its await: thrown is the write that throws, counted
\* in program order from 1, or 0 when every write succeeds
handleExportZip(thrown) ==
    /\ CanExport
    /\ LET writes == ZipWrites(projectData)
           started == ExportStarted("zip", projectData)
       IN  /\ thrown <= Len(writes)
           /\ export' =
                 IF thrown = 0
                 THEN [started EXCEPT !.entries = WriteAll(<<>>, writes)]
                 ELSE OnExportFailure(
                          [started EXCEPT !.entries = WriteAll(<<>>, SubSeq(writes, 1, thrown - 1))])
    /\ UNCHANGED gatewayVars
    /\ UNCHANGED shellVars
    /\ UNCHANGED uiVars

\* an archive whose files are written after the await, from the document of
\* the render current then
ZipGenerated_LateWrites ==
    /\ export.pc = "generating"
    /\ export.kind = "zip"
    /\ export' = OnExportSuccess([export EXCEPT !.generated = TRUE,
                                                !.entries = WriteAll(<<>>, ZipWrites(projectData))])
    /\ UNCHANGED gatewayVars
    /\ UNCHANGED shellVars
    /\ UNCHANGED uiVars

\* zip.generateAsync resolves: downloadBlob, then the success notification
ZipGenerated ==
    /\ export.pc = "generating"
    /\ export.kind = "zip"
    /\ export' = OnExportSuccess([export EXCEPT !.generated = TRUE])
    /\ UNCHANGED gatewayVars
    /\ UNCHANGED shellVars
    /\ UNCHANGED uiVars

\* zip.generateAsync rejects
ZipGenerationFails ==
    /\ export.pc = "generating"
    /\ export.kind = "zip"
    /\ export' = OnExportFailure(export)
    /\ UNCHANGED gatewayVars
    /\ UNCHANGED shellVars
    /\ UNCHANGED uiVars

\* handleExportPDF up to its await
handleExportPDF ==
    /\ CanExport
    /\ export' = ExportStarted("pdf", projectData)
    /\ UNCHANGED gatewayVars
    /\ UNCHANGED shellVars
    /\ UNCHANGED uiVars

\* generateProjectPDF resolves; doc.save either downloads or throws
PdfGenerated(saveThrows) ==
    /\ export.pc = "generating"
    /\ export.kind = "pdf"
    /\ export' = IF saveThrows THEN OnExportFailure([export EXCEPT !.generated = TRUE])
                             ELSE OnExportSuccess([export EXCEPT !.generated = TRUE])
    /\ UNCHANGED gatewayVars
    /\ UNCHANGED shellVars
    /\ UNCHANGED uiVars

\* generateProjectPDF rejects
PdfGenerationFails ==
    /\ export.pc = "generating"
    /\ export.kind = "pdf"
    /\ export' = OnExportFailure(export)
    /\ UNCHANGED gatewayVars
    /\ UNCHANGED shellVars
    /\ UNCHANGED uiVars

\* handleExportPPTX up to its await
handleExportPPTX ==
    /\ CanExport
    /\ export' = ExportStarted("pptx", projectData)
    /\ UNCHANGED gatewayVars
    /\ UNCHANGED shellVars
    /\ UNCHANGED uiVars

\* generateProjectPPTX resolves
PptxGenerated ==
    /\ export.pc = "generating"
    /\ export.kind = "pptx"
    /\ export' = OnExportSuccess([export EXCEPT !.generated = TRUE])
    /\ UNCHANGED gatewayVars
    /\ UNCHANGED shellVars
    /\ UNCHANGED uiVars

\* generateProjectPPTX rejects
PptxGenerationFails ==
    /\ export.pc = "generating"
    /\ export.kind = "pptx"
    /\ export' = OnExportFailure(export)
    /\ UNCHANGED gatewayVars
    /\ UNCHANGED shellVars
    /\ UNCHANGED uiVars

-----------------------------------------------------------------------------
(* Inputs *)

\* upstream failures: each signal carried by the status or by the message
ErrStatus429 == [status |-> 429, message |-> <<"quota">>]
ErrMessage429 == [status |-> 0, message |-> <<"got ", "4", "2", "9">>]
ErrStatus503 == [status |-> 503, message |-> <<"unavailable">>]
ErrMessage503 == [status |-> 0, message |-> <<"got ", "5", "0", "3">>]
ErrStatus500 == [status |-> 500, message |-> <<"internal">>]
ErrMessage500 == [status |-> 0, message |-> <<"got ", "5", "0", "0">>]
ErrBadRequest == [status |-> 400, message |-> <<"bad request">>]
ErrTokenCount == [status |-> 400, message |-> <<"token count ", "1", "4", "2", "9", "0">>]
ErrNoMessage == [status |-> 0, message |-> Undefined]

Errors == {ErrStatus429, ErrMessage429, ErrStatus503, ErrMessage503, ErrStatus500,
           ErrMessage500, ErrBadRequest, ErrTokenCount, ErrNoMessage}

TextResponse(t) == [text |-> t, candidates |-> <<>>]
CandidatesResponse(cs) == [text |-> Undefined, candidates |-> <<cs>>]
PartsResponse(ps) == CandidatesResponse(<<Candidate(ps)>>)

ResponsesFor(op) ==
    CASE op = "generateImage" ->
            {TextResponse(Undefined), CandidatesResponse(<<>>), CandidatesResponse(<<NoContent>>),
             PartsResponse(<<>>), PartsResponse(<<TextPart>>),
             PartsResponse(<<TextPart, ImagePart(<<"x">>), ImagePart(<<"y">>)>>)}
      [] op = "generateStoryboard" ->
            {TextResponse(<<>>), TextResponse(<<"[", "{}", "]">>), TextResponse(<<"{">>)}
      [] OTHER -> {TextResponse(Undefined), TextResponse(<<"o", "k">>)}

UserInput == <<"i", "d", "e", "a">>

ShellAtRest ==
    /\ shellPc = "ready"
    /\ isLoading = FALSE
    /\ hasKey = TRUE
    /\ projectData = INITIAL_PROJECT_STATE
    /\ idb = <<>>
    /\ pending = <<>>
    /\ saveLog = <<>>
    /\ edits = 0
    /\ restores = 0
    /\ savedSince = FALSE

-----------------------------------------------------------------------------
(* The retry wrapper under the five operations, with a resolvable key *)

InitRetry ==
    /\ envKey = <<"E">>
    /\ stored = Undefined
    /\ clientInstance = Null
    /\ call = IdleCall
    /\ apiLog = <<>>
    /\ ShellAtRest
    /\ export = IdleExport
    /\ UiAtRest

NextRetry ==
    \/ \E op \in Ops : StartCall(op, UserInput)
    \/ \E err \in Errors : AttemptFails(err)
    \/ \E resp \in ResponsesFor(call.op) : AttemptSucceeds(resp)
    \/ WaitEnds
    \/ Return

SpecRetry == InitRetry /\ [][NextRetry]_vars

\* every attempt ends, one way or the other, and every timer fires
AttemptEnds ==
    \/ \E err \in Errors : AttemptFails(err)
    \/ \E resp \in ResponsesFor(call.op) : AttemptSucceeds(resp)

FairRetry ==
    /\ SpecRetry
    /\ WF_vars(AttemptEnds)
    /\ WF_vars(WaitEnds)

-----------------------------------------------------------------------------
(* The key lifecycle around the operations *)

EnvKeys == {Undefined, <<>>, <<" ">>, <<"E">>}
StoredKeys == {Undefined, <<"a">>}
KeyInputs == {<<>>, <<" ">>, <<" ", "a">>, <<"b", " ">>}
KeyErrors == {ErrStatus429, ErrBadRequest}

InitKeys ==
    /\ envKey \in EnvKeys
    /\ stored \in StoredKeys
    /\ clientInstance = Null
    /\ call = IdleCall
    /\ apiLog = <<>>
    /\ ShellAtRest
    /\ export = IdleExport
    /\ UiAtRest

NextKeys ==
    \/ \E key \in KeyInputs : saveApiKey(key)
    \/ clearApiKey
    \/ \E op \in Ops : StartCall(op, UserInput)
    \/ \E err \in KeyErrors : AttemptFails(err)
    \/ AttemptSucceeds(TextResponse(<<"o", "k">>))
    \/ WaitEnds
    \/ Return

SpecKeys == InitKeys /\ [][NextKeys]_vars

-----------------------------------------------------------------------------
(* The shell: boot, edits, autosave, reloads *)

LongKey == <<"k", "e", "y", "-", "0", "1", "2", "3", "4", "5", "6">>
ShortKey == <<"k", "e", "y">>

StoredDocuments ==
    {<<>>,
     <<INITIAL_PROJECT_STATE>>,
     <<[timeline |-> <<Frame(IntroTitle)>>, references |-> <<>>, directorHistory |-> <<>>]>>,
     <<[timeline |-> <<Frame(IntroTitle)>>, references |-> <<>>,
        directorHistory |-> <<[role |-> "model", text |-> "intro"], UserMessage>>]>>}

InitShell ==
    /\ envKey \in {Undefined, <<"E">>}
    /\ stored \in {Undefined, LongKey}
    /\ clientInstance = Null
    /\ call = IdleCall
    /\ apiLog = <<>>
    /\ shellPc = "mount"
    /\ isLoading = TRUE
    /\ hasKey = FALSE
    /\ projectData = INITIAL_PROJECT_STATE
    /\ idb \in StoredDocuments
    /\ pending = <<>>
    /\ saveLog = <<>>
    /\ edits = 0
    /\ restores = 0
    /\ savedSince = FALSE
    /\ export = IdleExport
    /\ UiAtRest

NextShell ==
    \/ Mount
    \/ LoadResolves
    \/ LoadFails
    \/ SplashTimer
    \/ \E title \in Titles : AddFrame(title)
    \/ DeleteFrame
    \/ AppendChat
    \/ SaveCompletes
    \/ \E key \in {ShortKey, LongKey} : handleSaveKey(key)
    \/ handleClearKey
    \/ Reload

SpecShell == InitShell /\ [][NextShell]_vars

\* the load ends one way or the other, timers fire, writes complete
LoadEnds == LoadResolves \/ LoadFails

FairShell ==
    /\ SpecShell
    /\ WF_vars(Mount)
    /\ WF_vars(LoadEnds)
    /\ WF_vars(SplashTimer)
    /\ WF_vars(SaveCompletes)

-----------------------------------------------------------------------------
(* The shell: exports of a loaded document *)

Image1 == DataUrl(<<"i", "V", "B", "O">>)
Image2 == DataUrl(<<"R", "w", "0", "K">>)

Hello == <<"H", "e", "l", "l", "o">>
Hero == <<"H", "e", "r", "o">>

\* a UTF-16 unit beyond ASCII is written "U+hhhh"
Noel == <<"N", "o", "U+00EB", "l", " ", "!">>
CutTwo == <<"U+0416", ":", " ", "2">>

\* characters: a plain name (with and without image), blanks, punctuation
\* and a letter beyond ASCII, no name
ExportCharacters ==
    {Character(Hero, Image1), Character(Hero, Undefined),
     Character(Noel, Image2), Character(<<>>, Image2)}

\* frames: a plain title, no title, punctuation and a letter beyond ASCII
ExportFrames ==
    {TimelineFrame(IntroTitle, Image1, 4, Hello),
     TimelineFrame(<<>>, Image2, 3, <<>>),
     TimelineFrame(CutTwo, Undefined, 61, <<"H", "i">>)}

MaxCharacters == 2
MaxTimeline == 2

SeqsUpTo(S, n) == UNION {[1..k -> S] : k \in 0..n}

ExportDocuments ==
    {[timeline |-> tl, references |-> refs, directorHistory |-> INITIAL_VALERA_MESSAGES] :
        tl \in SeqsUpTo(ExportFrames, MaxTimeline) \ {<<>>},
        refs \in SeqsUpTo(ExportCharacters, MaxCharacters)}

InitExport ==
    /\ envKey = Undefined
    /\ stored = LongKey
    /\ clientInstance = Null
    /\ call = IdleCall
    /\ apiLog = <<>>
    /\ shellPc = "ready"
    /\ isLoading = FALSE
    /\ hasKey = TRUE
    /\ projectData \in ExportDocuments
    /\ idb = <<projectData>>
    /\ pending = <<>>
    /\ saveLog = <<>>
    /\ edits = 0
    /\ restores = 0
    /\ savedSince = FALSE
    /\ export = IdleExport
    /\ UiAtRest

MaxWrites == MaxCharacters + MaxTimeline + 7

NextExport ==
    \/ \E thrown \in 0..MaxWrites : handleExportZip(thrown)
    \/ ZipGenerated
    \/ ZipGenerationFails
    \/ handleExportPDF
    \/ \E saveThrows \in BOOLEAN : PdfGenerated(saveThrows)
    \/ PdfGenerationFails
    \/ handleExportPPTX
    \/ PptxGenerated
    \/ PptxGenerationFails

SpecExport == InitExport /\ [][NextExport]_vars

-----------------------------------------------------------------------------
(* The shell: edits while a bundle is generated *)

InitExportEdit ==
    /\ InitExport
    /\ Len(projectData.timeline) = 1
    /\ Len(projectData.references) <= 1

NextExportEdit ==
    \/ \E thrown \in 0..MaxWrites : handleExportZip(thrown)
    \/ ZipGenerated
    \/ ZipGenerationFails
    \/ \E title \in Titles : AddFrame(title)
    \/ DeleteFrame
    \/ AppendChat
    \/ SaveCompletes

SpecExportEdit == InitExportEdit /\ [][NextExportEdit]_vars

-----------------------------------------------------------------------------
(* sendDirectorMessage: the contents of the request *)

\* a ChatMessage: image is Undefined or the data URL the turn carried
ChatMessage(role, text, image) == [role |-> role, text |-> text, image |-> image]

\* an attachment of the current turn
Attachment(data) == [mimeType |-> "image/png", data |-> data]

TextOf(t) == [kind |-> "text", text |-> t]
InlineOf(att) == [kind |-> "inlineData", mimeType |-> att.mimeType, data |-> Base64Of(att.data)]

OmittedPlaceholder ==
    <<"[Visual/File attachment from previous turn omitted for optimization]">>

\* a history turn replayed with the image it carried
HistoryTurn_WithImage(msg) ==
    [role |-> msg.role,
     parts |-> (IF Truthy(msg.image) THEN <<InlineOf(Attachment(msg.image))>> ELSE <<>>)
               \o <<TextOf(IF Truthy(msg.text) THEN msg.text ELSE OmittedPlaceholder)>>]

\* history.map: one text part per turn
HistoryTurn(msg) ==
    [role |-> msg.role,
     parts |-> <<TextOf(IF Truthy(msg.text) THEN msg.text ELSE OmittedPlaceholder)>>]

\* contents: the history turns, then the new user turn
DirectorContents(history, newMessage, attachments) ==
    [i \in 1..Len(history) |-> HistoryTurn(history[i])]
    \o <<[role |-> "user",
          parts |-> [i \in 1..Len(attachments) |-> InlineOf(attachments[i])]
                    \o <<TextOf(newMessage)>>]>>

sendDirectorMessage(history, newMessage, attachments) ==
    StartCallWith("sendDirectorMessage", newMessage,
                  <<[history |-> history, newMessage |-> newMessage,
                     attachments |-> attachments,
                     contents |-> DirectorContents(history, newMessage, attachments)]>>)

Hi == <<"h", "i">>

\* turns: text only, image only, text and image, neither
ChatMessages ==
    {ChatMessage("model", <<"o", "k">>, Undefined), ChatMessage("user", <<>>, Image1),
     ChatMessage("user", Hi, Image2), ChatMessage("model", Undefined, Undefined)}

MaxHistory == 2
MaxAttachments == 2

InitDirector == InitRetry

NextDirector ==
    \/ \E history \in SeqsUpTo(ChatMessages, MaxHistory),
          newMessage \in {UserInput, <<>>},
          attachments \in SeqsUpTo({Attachment(Image1), Attachment(Image2)}, MaxAttachments) :
            sendDirectorMessage(history, newMessage, attachments)
    \/ \E err \in KeyErrors : AttemptFails(err)
    \/ AttemptSucceeds(TextResponse(<<"o", "k">>))
    \/ WaitEnds
    \/ Return

SpecDirector == InitDirector /\ [][NextDirector]_vars


-----------------------------------------------------------------------------
(* Properties *)

Last(seq) == seq[Len(seq)]

IsPrefix(p, q) == Len(p) <= Len(q) /\ p = SubSeq(q, 1, Len(p))

\* an upstream failure that is the HTTP failure `code`: its status says so,
\* or it has no status and its message names the code
HttpFailure(err, code, digits) ==
    err.status = code \/ (err.status = 0 /\ MsgIncludes(err, digits))

Http429(err) == HttpFailure(err, 429, <<"4", "2", "9">>)
Http500(err) == HttpFailure(err, 500, <<"5", "0", "0">>)
Http503(err) == HttpFailure(err, 503, <<"5", "0", "3">>)

\* C1: an operation invoked while there is neither a non-empty environment
\* key nor a stored key ends at once: getClient returns no client, the
\* missing-key error is what the operation gets, and no upstream request is
\* issued.
C1_MissingCredential ==
    [][(/\ call.pc = "idle"
        /\ call'.pc # "idle"
        /\ ~EnvPresent(envKey)
        /\ ~Truthy(stored))
       => (/\ call'.pc = "done"
           /\ call'.attempts = 0
           /\ call'.outcomes = <<>>
           /\ ~call'.ai.built
           /\ Last(apiLog').name = "getClient"
           /\ ~Last(apiLog').ret.built
           /\ ~clientInstance'.built
           /\ call'.op \notin GuardedOps
                 => /\ call'.result.kind = "reject"
                    /\ call'.result.err.message
                         = <<"API Key is missing. Please set it in Settings.">>)]_vars

C1_Witness ==
    /\ envKey = <<" ">>
    /\ stored = Undefined
    /\ call.pc = "done"
    /\ call.op = "generateImage"
    /\ call.attempts = 0
    /\ call.result.kind = "reject"
    /\ Len(apiLog) = 2
    /\ apiLog[1].name = "clearApiKey"

\* C2: a call makes at most 4 upstream attempts, the waits between them are
\* 2000, 4000 and 8000 ms in that order, one wait before each retry, and
\* every call that was started ends.
C2_Backoff == <<2000, 4000, 8000>>

C2_BoundedRetry ==
    /\ [](/\ call.attempts <= 4
          /\ IsPrefix(call.waits, C2_Backoff)
          /\ call.pc = "attempt" => Len(call.waits) = call.attempts - 1
          /\ call.pc = "waiting" => Len(call.waits) = call.attempts)
    /\ (call.pc \in {"attempt", "waiting"} ~> call.pc = "done")

C2_Witness ==
    /\ call.pc = "done"
    /\ call.attempts = 4
    /\ call.waits = <<2000, 4000, 8000>>
    /\ ~call.settled[1].ok

\* C3: a call whose first two attempts fail with 429 and whose third attempt
\* succeeds has made exactly 3 attempts, has waited 2000 ms and then 4000 ms,
\* and retryOperation returns the response of the third attempt.
C3_TwoQuotaFailuresThenSuccess ==
    (/\ Len(call.outcomes) = 3
     /\ ~call.outcomes[1].ok /\ Http429(call.outcomes[1].err)
     /\ ~call.outcomes[2].ok /\ Http429(call.outcomes[2].err)
     /\ call.outcomes[3].ok)
    => (/\ call.pc = "done"
        /\ call.attempts = 3
        /\ call.waits = <<2000, 4000>>
        /\ call.settled = <<call.outcomes[3]>>
        /\ call.settled[1].ok
        /\ call.op = "sendDirectorMessage" /\ Truthy(call.outcomes[3].resp.text)
              => call.result = Resolve("text", call.outcomes[3].resp.text))

C3_Witness ==
    /\ call.pc = "done"
    /\ Len(call.outcomes) = 3
    /\ call.outcomes[1] = Failed(ErrStatus429)
    /\ call.outcomes[2] = Failed(ErrMessage429)
    /\ call.outcomes[3].ok
    /\ call.op = "sendDirectorMessage"
    /\ call.result.tag = "text"


HttpRetryable(err) == Http429(err) \/ Http500(err) \/ Http503(err)

\* C4: a call whose first attempt fails with an error that is not an HTTP
\* 429, 500 or 503 failure makes that one attempt only, waits for nothing, and
\* retryOperation throws that same error.
C4_NonRetryableOnce ==
    (/\ Len(call.outcomes) >= 1
     /\ ~call.outcomes[1].ok
     /\ ~HttpRetryable(call.outcomes[1].err))
    => (/\ call.pc = "done"
        /\ call.attempts = 1
        /\ call.waits = <<>>
        /\ call.settled = <<call.outcomes[1]>>)

\* C5: whichever of 429, 500 and 503 a failed attempt signals, and whether by
\* status or by message, while retries remain it is followed by the wait of
\* the backoff sequence and by another attempt.
C5_TransientRetriedLikeQuota ==
    \A i \in 1..Len(call.outcomes) :
        (/\ ~call.outcomes[i].ok
         /\ HttpRetryable(call.outcomes[i].err)
         /\ i <= DefaultRetries)
        => (/\ Len(call.waits) >= i
            /\ call.waits[i] = C2_Backoff[i]
            /\ call.pc = "waiting" \/ call.attempts > i)

\* what the two ways of surfacing a failure look like in a result
SurfacesQuota(result) ==
    \/ result.kind = "resolve" /\ result.tag = "quotaMessage"
    \/ result.kind = "reject" /\ result.err.message
          = <<"API Quota Limit (", "4", "2", "9", "). Please wait a minute and try again.">>

SurfacesGeneric(result, err) ==
    \/ /\ result.kind = "resolve"
       /\ result.tag = "actionCutError"
       /\ result.data = IF Truthy(err.message) THEN err.message ELSE <<"Unknown API Error">>
    \/ result.kind = "reject" /\ result.err = err

C7_EnvKeyWins ==
    (EnvPresent(envKey) /\ call.attempts >= 1) => call.ai = GoogleGenAI(envKey)

\* C8: after saveApiKey(k) with a non-blank k, localStorage holds k trimmed
\* and the cached client is one built from k trimmed; the next getClient
\* returns that client from the cache.
C8_SaveRebuildsClient ==
    /\ (apiLog # <<>> /\ Last(apiLog).name = "saveApiKey" /\ Trim(Last(apiLog).arg) # <<>>)
          => /\ stored = Trim(Last(apiLog).arg)
             /\ clientInstance = [built |-> TRUE, apiKey |-> Trim(Last(apiLog).arg)]
    /\ (/\ Len(apiLog) = 2
        /\ apiLog[1].name = "saveApiKey"
        /\ Trim(apiLog[1].arg) # <<>>
        /\ apiLog[2].name = "getClient")
          => /\ apiLog[2].ret = [built |-> TRUE, apiKey |-> Trim(apiLog[1].arg)]
             /\ ~apiLog[2].resolved
             /\ clientInstance = apiLog[2].ret

C8_Witness ==
    /\ envKey = <<"E">>
    /\ Len(apiLog) = 2
    /\ apiLog[1].name = "saveApiKey"
    /\ apiLog[1].arg = <<"b", " ">>
    /\ apiLog[2].name = "getClient"
    /\ stored = <<"b">>
    /\ call.pc = "attempt"

\* C9: after clearApiKey neither a stored key nor a cached client exists;
\* the next getClient resolves the credential anew: it returns a client built
\* from the environment key when that is non-empty and fails otherwise.
C9_ClearInvalidates ==
    /\ (apiLog # <<>> /\ Last(apiLog).name = "clearApiKey")
          => stored = Undefined /\ ~clientInstance.built
    /\ (Len(apiLog) = 2 /\ apiLog[1].name = "clearApiKey" /\ apiLog[2].name = "getClient")
          => /\ apiLog[2].resolved
             /\ apiLog[2].ret = IF envKey # Undefined /\ Trim(envKey) # <<>>
                                THEN [built |-> TRUE, apiKey |-> envKey]
                                ELSE [built |-> FALSE, apiKey |-> Undefined]

C9_Witness ==
    /\ envKey = <<"E">>
    /\ Len(apiLog) = 2
    /\ apiLog[1].name = "clearApiKey"
    /\ apiLog[2].name = "getClient"
    /\ apiLog[2].ret.apiKey = <<"E">>
    /\ call.pc = "attempt"

\* C10: an autosave is made only in a state with isLoading false and hasKey
\* true, and it saves the document then in memory; in such a state every
\* change of the in-memory document makes exactly one autosave, of the new
\* document.
C10_AutosaveGating ==
    [][/\ saveLog' # saveLog /\ saveLog' # <<>>
          => /\ ~isLoading' /\ hasKey'
             /\ saveLog' = Append(saveLog, Last(saveLog'))
             /\ Last(saveLog').doc = projectData'
             /\ pending' = Append(pending, projectData')
       /\ (projectData' # projectData /\ ~isLoading' /\ hasKey')
          => /\ Len(saveLog') = Len(saveLog) + 1
             /\ Last(saveLog').doc = projectData'
             /\ pending' = Append(pending, projectData')]_vars

C10_Witness ==
    /\ Len(saveLog) = 3
    /\ edits = 2
    /\ saveLog[3].doc = projectData
    /\ saveLog[2].doc # projectData
    /\ idb = <<saveLog[2].doc>>


\* C11: over boots, chat turns, autosaves and reloads the load replaces the
\* chat history of the document with the introductory messages at most once
\* (loading again a document that was not saved in between is the same
\* replacement), and on a document it has already normalized it changes
\* nothing.
C11_RestoredAtMostOnce ==
    /\ restores <= 1
    /\ idb # <<>> => RestoreGreeting(RestoreGreeting(idb[1])) = RestoreGreeting(idb[1])


-----------------------------------------------------------------------------
(* Properties of the export handlers *)

\* the messages a handler has passed to showNotify
Notified(msg) == \E i \in 1..Len(export.notes) : export.notes[i].msg = msg

\* the paths of the archive
Paths == {export.entries[i].path : i \in 1..Len(export.entries)}

TopLevelEntries ==
    {<<"project_data.json">>, <<"import_project.py">>, <<"timeline.fcpxml">>,
     <<"timeline.edl">>, <<"subtitles.srt">>, <<"README_IMPORT.txt">>}

\* C12: when a step of the bundle export throws, nothing is downloaded, the
\* failure notification is the last one shown and the success notification
\* is not shown; a download is made only of an archive that holds every
\* top-level entry and whose generation resolved.
C12_AllOrNothing ==
    export.kind = "zip" =>
        /\ export.failed =>
               /\ export.downloads = <<>>
               /\ export.notes # <<>>
               /\ Last(export.notes).msg = "Export Failed (Check Console)"
               /\ ~Notified("Master Package Exported")
        /\ export.downloads # <<>> =>
               /\ ~export.failed
               /\ export.generated
               /\ TopLevelEntries \subseteq Paths
               /\ Len(export.downloads) = 1

\* a write threw after others had been made
C12_Witness ==
    /\ export.kind = "zip"
    /\ export.failed
    /\ <<"project_data.json">> \in Paths
    /\ <<"README_IMPORT.txt">> \notin Paths


\* the bundle export went through: the archive was generated and downloaded
ZipExported == export.kind = "zip" /\ export.pc = "done" /\ ~export.failed

\* the entries of the images/ folder, the folder itself left out
ImageEntries ==
    {i \in 1..Len(export.entries) :
        /\ IsPrefix(ImagesFolder, export.entries[i].path)
        /\ export.entries[i].path # ImagesFolder}

WithImage(items) == {i \in 1..Len(items) : Truthy(items[i].image)}

\* C13: the images/ folder of a successful bundle export holds as many
\* entries as there are characters with an image and frames with an image.
C13_OneEntryPerImage ==
    ZipExported =>
        Cardinality(ImageEntries)
            = Cardinality(WithImage(export.doc[1].references))
              + Cardinality(WithImage(export.doc[1].timeline))

\* the file name without its folder and without its .png extension
Stem(path) == SubSeq(path, Len(ImagesFolder) + 1, Len(path) - Len(Png))

\* stem is name with every character outside [a-zA-Z0-9] turned into "_"
Sanitized(name, stem) ==
    /\ Len(stem) = Len(name)
    /\ \A i \in 1..Len(name) :
          stem[i] = IF name[i] \in Lower \cup Upper \cup Digit THEN name[i] ELSE "_"

\* C14: every image entry of a bundle export is named with characters of
\* [a-zA-Z0-9_] and the extension .png; a character with an image is found
\* under its sanitized name ("Asset" when it has none), the frame at position
\* k under Scene_<k>_ and its sanitized title ("Scene_<k>" when it has none).
C14_SafeFileNames ==
    (export.kind = "zip" /\ export.pc # "idle" /\ ~export.failed) =>
        LET doc == export.doc[1] IN
        /\ \A i \in ImageEntries :
              LET path == export.entries[i].path IN
              /\ SubSeq(path, Len(path) - 3, Len(path)) = <<".", "p", "n", "g">>
              /\ \A j \in 1..Len(Stem(path)) : Stem(path)[j] \in AlphaNum \cup {"_"}
        /\ \A k \in WithImage(doc.references) :
              \E i \in ImageEntries :
                  Sanitized(IF doc.references[k].name = <<>> THEN <<"A", "s", "s", "e", "t">>
                                                            ELSE doc.references[k].name,
                            Stem(export.entries[i].path))
        /\ \A k \in WithImage(doc.timeline) :
              \E i \in ImageEntries :
                  LET stem == Stem(export.entries[i].path)
                      head == <<"S", "c", "e", "n", "e", "_">> \o Decimal(k) \o <<"_">>
                  IN  /\ IsPrefix(head, stem)
                      /\ Sanitized(IF doc.timeline[k].title = <<>>
                                   THEN <<"S", "c", "e", "n", "e", "_">> \o Decimal(k)
                                   ELSE doc.timeline[k].title,
                                   SubSeq(stem, Len(head) + 1, Len(stem)))

\* the scenario of the specification, next to a name beyond ASCII and a
\* frame without title
C14_Witness ==
    /\ ZipExported
    /\ export.doc[1].references = <<Character(Hero, Image1), Character(Noel, Image2)>>
    /\ export.doc[1].timeline = <<TimelineFrame(IntroTitle, Image1, 4, Hello),
                                  TimelineFrame(<<>>, Image2, 3, <<>>)>>
    /\ {ImagesFolder \o <<"H", "e", "r", "o", ".", "p", "n", "g">>,
        ImagesFolder \o <<"N", "o", "_", "l", "_", "_", ".", "p", "n", "g">>,
        ImagesFolder \o <<"S", "c", "e", "n", "e", "_", "1", "_",
                          "I", "n", "t", "r", "o", ".", "p", "n", "g">>,
        ImagesFolder \o <<"S", "c", "e", "n", "e", "_", "2", "_",
                          "S", "c", "e", "n", "e", "_", "2", ".", "p", "n", "g">>}
           \subseteq Paths


\* C18: a failure of the PDF or slide-deck generation ends in the catch
\* block of its handler: the named notification is the last one shown, the
\* success notification is not shown, nothing is rethrown and the project
\* document is the one the export started from.
C18_GenerationFailureReported ==
    (export.kind \in {"pdf", "pptx"} /\ export.failed) =>
        /\ export.notes # <<>>
        /\ Last(export.notes).msg = IF export.kind = "pdf" THEN "PDF Generation Failed"
                                                          ELSE "PPTX Generation Failed"
        /\ ~Notified("PDF Exported")
        /\ ~Notified("PPTX Exported")
        /\ ~export.rethrown
        /\ export.pc = "done"
        /\ projectData = export.doc[1]
        /\ idb = <<projectData>>

\* the PDF was generated and doc.save threw
C18_Witness ==
    /\ export.kind = "pdf"
    /\ export.failed
    /\ export.generated

\* the sum of the durations of the first n frames
RECURSIVE Elapsed(_, _)
Elapsed(timeline, n) == IF n = 0 THEN 0 ELSE Elapsed(timeline, n - 1) + timeline[n].duration

Spoken(timeline) ==
    {j \in 1..Len(timeline) : timeline[j].dialogue \notin {Undefined, <<>>}}

\* the subtitle file of the archive
Subtitles ==
    LET i == CHOOSE i \in 1..Len(export.entries) : export.entries[i].path = <<"subtitles.srt">>
    IN  export.entries[i].data

\* C19: the subtitle file of a bundle holds one cue for each frame with
\* dialogue, in timeline order and numbered from 1; the cue of a frame starts
\* at the sum of the durations of all frames before it and ends that frame's
\* duration later, both written HH:MM:SS,mmm.
C19_SubtitleCues ==
    (export.kind = "zip" /\ <<"subtitles.srt">> \in Paths) =>
        LET timeline == export.doc[1].timeline
            cues == Subtitles
        IN  /\ Len(cues) = Cardinality(Spoken(timeline))
            /\ \A j \in Spoken(timeline) :
                  LET k == Cardinality({h \in Spoken(timeline) : h <= j}) IN
                  /\ cues[k].index = k
                  /\ cues[k].text = timeline[j].dialogue
                  /\ cues[k].start = FormatTime(1000 * Elapsed(timeline, j - 1))
                  /\ cues[k].end = FormatTime(1000 * Elapsed(timeline, j))

\* a silent frame of 3 s, then the frame of the scenario: its cue runs from
\* 00:00:03,000 to 00:00:07,000
C19_Witness ==
    /\ ZipExported
    /\ export.doc[1].timeline = <<TimelineFrame(<<>>, Image2, 3, <<>>),
                                  TimelineFrame(IntroTitle, Image1, 4, Hello)>>
    /\ Subtitles =
          <<[index |-> 1,
             start |-> <<"0", "0", ":", "0", "0", ":", "0", "3", ",", "0", "0", "0">>,
             end |-> <<"0", "0", ":", "0", "0", ":", "0", "7", ",", "0", "0", "0">>,
             text |-> <<"H", "e", "l", "l", "o">>]>>


-----------------------------------------------------------------------------
(* Properties of generateImage and generateStoryboard *)

\* all parts of all candidates of a response, in order
RECURSIVE AllParts(_)
AllParts(candidates) ==
    IF candidates = <<>> THEN <<>>
    ELSE LET c == Head(candidates) IN
         (IF c.content # <<>> /\ c.content[1].parts # <<>> THEN c.content[1].parts[1] ELSE <<>>)
             \o AllParts(Tail(candidates))

\* the inline image payloads a response carries, in order
Payloads(resp) ==
    LET parts == IF resp.candidates = <<>> THEN <<>> ELSE AllParts(resp.candidates[1])
    IN  SelectSeq([i \in 1..Len(parts) |-> parts[i].inlineData],
                  LAMBDA d : d \notin {Undefined, <<>>})

\* C15: when the upstream call of generateImage succeeds, no further attempt
\* is made; a response without inline image payload makes the call fail with
\* the no-image-data error (after exactly one attempt when it answered the
\* first attempt), a response with payloads makes it return the data URL of
\* the first one.
C15_NoImageIsHardFailure ==
    (call.op = "generateImage" /\ call.pc = "done" /\ call.settled # <<>> /\ call.settled[1].ok) =>
        LET resp == call.settled[1].resp IN
        /\ Last(call.outcomes) = call.settled[1]
        /\ call.attempts = Len(call.outcomes)
        /\ Len(call.outcomes) = 1 => (call.attempts = 1 /\ call.waits = <<>>)
        /\ IF Payloads(resp) = <<>>
           THEN /\ call.result.kind = "reject"
                /\ call.result.err.message = <<"No image data returned from Gemini.">>
           ELSE /\ call.result.kind = "resolve"
                /\ call.result.data = <<"data:image/png;base64", ",">> \o Payloads(resp)[1]


\* the text of a response is an array text
ArrayText(text) == text \notin {Undefined, <<>>} /\ text[1] = "[" /\ Last(text) = "]"

\* C16: a generateStoryboard call that reached the upstream service always
\* resolves; when the call finally failed, or the text of the response is
\* empty, absent or not valid JSON, it resolves with the empty sequence.
C16_StoryboardNeverPropagates ==
    (call.op = "generateStoryboard" /\ call.pc = "done" /\ call.settled # <<>>) =>
        /\ call.result.kind = "resolve"
        /\ (~call.settled[1].ok \/ ~ArrayText(call.settled[1].resp.text))
               => call.result.data = <<>>

\* the upstream call succeeded after a retry and its text does not parse
C16_Witness ==
    /\ call.op = "generateStoryboard"
    /\ call.pc = "done"
    /\ Len(call.outcomes) = 2
    /\ call.settled # <<>>
    /\ call.settled[1].ok
    /\ call.settled[1].resp.text = <<"{">>
    /\ call.result = [kind |-> "resolve", tag |-> "scenes", data |-> <<>>, err |-> NoError]


-----------------------------------------------------------------------------
(* Properties of the boot without credential and of the autosave order *)

\* neither the environment nor the local storage holds a non-blank key
NoCredential ==
    /\ envKey = Undefined \/ Trim(envKey) = <<>>
    /\ stored = Undefined \/ Trim(stored) = <<>>

\* C17: a boot without resolvable credential ends on the access screen; on
\* the access screen the editing surfaces are not rendered, the in-memory
\* document is the initial one (nothing was loaded), no save was or is made,
\* and the screen is only left by a reload of the page; the editing surfaces
\* are rendered only with a resolvable credential.
C17_BlockingAccessScreen ==
    [][/\ (shellPc = "mount" /\ NoCredential /\ shellPc' # "mount") => shellPc' = "auth"
       /\ shellPc' = "auth"
          => /\ ~MainAppShown'
             /\ ~isLoading' /\ ~hasKey'
             /\ projectData' = INITIAL_PROJECT_STATE
             /\ saveLog' = <<>>
             /\ edits' = 0
             /\ Len(pending') <= Len(pending)
       /\ shellPc = "auth" => shellPc' \in {"auth", "mount"}
       /\ MainAppShown' => ~NoCredential']_vars

\* the access screen over a stored project that was edited before
C17_Witness ==
    /\ shellPc = "auth"
    /\ NoCredential
    /\ idb # <<>>
    /\ idb[1] # INITIAL_PROJECT_STATE
    /\ projectData = INITIAL_PROJECT_STATE

\* C20: saves are handed over without waiting for the earlier ones, and
\* once no save is outstanding the persisted document is the one of the
\* latest autosave, which is the in-memory document of the main app.
C20_LastWriteWins ==
    /\ (pending = <<>> /\ saveLog # <<>>) => idb = <<Last(saveLog).doc>>
    /\ (pending = <<>> /\ MainAppShown) => idb = <<projectData>>

\* two edits were made while the first save was outstanding; all three saves
\* have completed
C20_Witness ==
    /\ MainAppShown
    /\ edits = 2
    /\ Len(saveLog) = 3
    /\ saveLog[1].doc # saveLog[3].doc
    /\ saveLog[2].doc # saveLog[3].doc
    /\ pending = <<>>
    /\ idb = <<projectData>>


-----------------------------------------------------------------------------
(* Properties of calls in flight during a credential change *)

\* C21: every upstream request of a call goes through the client the call
\* acquired when it started; saveApiKey and clearApiKey leave a call in
\* flight as it is, and a call that starts afterwards acquires the client
\* that getClient returns then.
C21_CallKeepsClient ==
    [][/\ Len(call'.clients) = call'.attempts
       /\ \A i \in 1..Len(call'.clients) : call'.clients[i] = call'.clients[1]
       /\ (apiLog' # apiLog /\ Last(apiLog').name \in {"saveApiKey", "clearApiKey"})
             => call' = call
       /\ (call.pc = "idle" /\ call'.pc = "attempt")
             => /\ call'.clients = <<clientInstance'>>
                /\ Last(apiLog').name = "getClient"
                /\ Last(apiLog').ret = clientInstance']_vars

\* a call that started with the environment key retries after saveApiKey has
\* put another client into the cache
C21_Witness ==
    /\ call.pc = "attempt"
    /\ call.attempts = 2
    /\ call.clients = <<GoogleGenAI(<<"E">>), GoogleGenAI(<<"E">>)>>
    /\ Last(apiLog).name = "saveApiKey"
    /\ clientInstance = GoogleGenAI(<<"b">>)


-----------------------------------------------------------------------------
(* Properties of the request of sendDirectorMessage *)

\* the request of the sendDirectorMessage call in flight
Sent == call.request[1]

DirectorCalled == call.op = "sendDirectorMessage" /\ call.request # <<>>

Placeholder == <<"[Visual/File attachment from previous turn omitted for optimization]">>

\* the last turn of the contents: role user, every current attachment as a
\* binary part, in order, then the new message as text
FinalTurn ==
    LET turn == Last(Sent.contents) IN
    /\ Len(Sent.contents) = Len(Sent.history) + 1
    /\ turn.role = "user"
    /\ Len(turn.parts) = Len(Sent.attachments) + 1
    /\ \A i \in 1..Len(Sent.attachments) :
          /\ turn.parts[i].kind = "inlineData"
          /\ turn.parts[i].mimeType = Sent.attachments[i].mimeType
          /\ <<"data:image/png;base64", ",">> \o turn.parts[i].data = Sent.attachments[i].data
    /\ Last(turn.parts) = [kind |-> "text", text |-> Sent.newMessage]

\* C22 as stated: the history turns are sent in order as one text part each,
\* a turn that carried an attachment as the placeholder, and the final user
\* turn follows.
C22_AttachmentTurnsAsPlaceholder ==
    DirectorCalled =>
        /\ FinalTurn
        /\ \A i \in 1..Len(Sent.history) :
              /\ Sent.contents[i].role = Sent.history[i].role
              /\ Len(Sent.contents[i].parts) = 1
              /\ Sent.contents[i].parts[1].kind = "text"
              /\ Sent.history[i].image # Undefined
                    => Sent.contents[i].parts[1].text = Placeholder

\* C22 amended: the history turns are sent in order as one text part each, a
\* turn with text as its text (whether or not it carried an attachment) and a
\* turn without text as the placeholder, never as binary data, and the final
\* user turn follows.
C22_HistoryAsTextOnly ==
    DirectorCalled =>
        /\ FinalTurn
        /\ \A i \in 1..Len(Sent.history) :
              /\ Sent.contents[i].role = Sent.history[i].role
              /\ Len(Sent.contents[i].parts) = 1
              /\ Sent.contents[i].parts[1].kind = "text"
              /\ Sent.contents[i].parts[1].text =
                    IF Sent.history[i].text \in {Undefined, <<>>} THEN Placeholder
                    ELSE Sent.history[i].text

\* an image-only turn and a turn with text and image in the history, two
\* attachments in the current turn
C22_Witness ==
    /\ DirectorCalled
    /\ call.pc = "attempt"
    /\ Sent.history = <<ChatMessage("user", <<>>, Image1), ChatMessage("user", Hi, Image2)>>
    /\ Len(Sent.attachments) = 2
    /\ Sent.contents[1].parts = <<[kind |-> "text", text |-> Placeholder]>>
    /\ Sent.contents[2].parts = <<[kind |-> "text", text |-> <<"h", "i">>]>>
    /\ Len(Sent.contents[3].parts) = 3


-----------------------------------------------------------------------------
(* Properties of the boot with a credential *)

\* C23: from boot until the load has resolved no save is made; the load
\* places in memory the stored document (its chat history possibly replaced
\* by the introduction), or the initial state when none is stored; the first
\* autosave of the page follows the load and writes the document the load
\* placed in memory.
C23_NoSaveBeforeLoad ==
    [][/\ shellPc' \in {"mount", "loading"} => (saveLog' = <<>> /\ Len(pending') <= Len(pending))
       /\ (shellPc = "loading" /\ shellPc' = "splash")
             => /\ saveLog' = <<>>
                /\ pending' = pending
                /\ idb' = idb
                /\ IF idb = <<>> THEN projectData' = INITIAL_PROJECT_STATE
                   ELSE /\ projectData'.timeline = idb[1].timeline
                        /\ projectData'.references = idb[1].references
                        /\ projectData'.directorHistory
                               \in {idb[1].directorHistory, INITIAL_VALERA_MESSAGES}
       /\ (saveLog = <<>> /\ saveLog' # <<>>)
             => /\ shellPc = "splash"
                /\ saveLog' = <<[doc |-> projectData, isLoading |-> FALSE, hasKey |-> TRUE]>>
                /\ pending' = Append(pending, projectData)
                /\ projectData' = projectData]_vars

\* the first autosave of a boot over a stored project: the stored timeline
\* is the one written back
C23_Witness ==
    /\ shellPc = "ready"
    /\ edits = 0
    /\ Len(saveLog) = 1
    /\ pending = <<saveLog[1].doc>>
    /\ idb # <<>>
    /\ idb[1].timeline # INITIAL_PROJECT_STATE.timeline
    /\ saveLog[1].doc.timeline = idb[1].timeline


\* C24: a boot with a valid key leads to the editing surfaces, unless the
\* page is reloaded before.
C24_LoadingEnds ==
    (shellPc = "loading") ~> (MainAppShown \/ shellPc = "mount")


-----------------------------------------------------------------------------
(* Properties of a bundle export under edits *)

EntryData(path) ==
    LET i == CHOOSE i \in 1..Len(export.entries) : export.entries[i].path = path
    IN  export.entries[i].data

\* the entries that depend on the document are those of doc
DerivedFrom(doc) ==
    /\ EntryData(<<"project_data.json">>) = <<doc>>
    /\ LET cues == EntryData(<<"subtitles.srt">>) IN
          /\ Len(cues) = Cardinality(Spoken(doc.timeline))
          /\ \A k \in 1..Len(cues) :
                \E j \in Spoken(doc.timeline) : cues[k].text = doc.timeline[j].dialogue
    /\ Cardinality(ImageEntries)
          <= Cardinality(WithImage(doc.references)) + Cardinality(WithImage(doc.timeline))
    /\ \A j \in WithImage(doc.timeline) :
          \E i \in ImageEntries :
              <<"data:image/png;base64", ",">> \o export.entries[i].data = doc.timeline[j].image
    /\ \A j \in WithImage(doc.references) :
          \E i \in ImageEntries :
              <<"data:image/png;base64", ",">> \o export.entries[i].data = doc.references[j].image

\* C25: a bundle export takes the project document of the moment it is
\* invoked; while the archive is generated, and when it is downloaded, its
\* entries are those derived from that document, whatever edits were made
\* in between.
C25_OneSnapshot ==
    [][/\ (export'.kind = "zip" /\ export'.pc = "generating" /\ export.pc # "generating")
             => export'.doc = <<projectData>>
       /\ (export.kind = "zip" /\ export.pc = "generating" /\ export'.kind = "zip")
             => /\ export'.doc = export.doc
                /\ export'.entries = export.entries
       /\ (export'.kind = "zip" /\ ~export'.failed) => DerivedFrom(export.doc[1])']_vars

\* the bundle was downloaded after two edits made during its generation
C25_Witness ==
    /\ ZipExported
    /\ edits = 2
    /\ Len(projectData.timeline) = 2
    /\ Len(export.doc[1].timeline) = 1
    /\ EntryData(<<"project_data.json">>) = export.doc
    /\ EntryData(<<"project_data.json">>) # <<projectData>>
    /\ Len(saveLog) = 2

-----------------------------------------------------------------------------
(* The studio: what the director adds, and the notification on display *)

\* the delay of the timer of showNotify, in milliseconds
NotifyDelay == 3000

\* the clock is followed in steps of TickMs milliseconds up to MaxNow;
\* handlers that run between two steps read the same Date.now()
TickMs == 1000
MaxNow == 3000
MaxNotes == 3
MaxBatch == 2
MaxAssets == 2

\* showNotify: the notification is replaced and a timer is started; n
\* numbers the calls, at is the time of the call
showNotify(msg, type) ==
    /\ notified < MaxNotes
    /\ notified' = notified + 1
    /\ notification' = [n |-> notified + 1, msg |-> msg, type |-> type, at |-> now]
    /\ timers' = Append(timers, [n |-> notified + 1, due |-> now + NotifyDelay])
    /\ UNCHANGED now

\* the callback of the oldest timer runs, at its time or later:
\* setNotification(null), whatever is on display
TimerFires ==
    /\ timers # <<>>
    /\ Head(timers).due <= now
    /\ notification' = NoNotification
    /\ timers' = Tail(timers)
    /\ UNCHANGED <<now, notified>>
    /\ UNCHANGED gatewayVars
    /\ UNCHANGED shellVars
    /\ UNCHANGED exportVars

\* time passes
Tick ==
    /\ now + TickMs <= MaxNow
    /\ now' = now + TickMs
    /\ UNCHANGED <<notification, timers, notified>>
    /\ UNCHANGED gatewayVars
    /\ UNCHANGED shellVars
    /\ UNCHANGED exportVars

\* onNotify of the timeline manager
onNotify(msg, type) ==
    /\ MainAppShown
    /\ showNotify(msg, type)
    /\ UNCHANGED gatewayVars
    /\ UNCHANGED shellVars
    /\ UNCHANGED exportVars

\* a scene of a storyboard of the director; duration 0 is an absent one
Scene(title, duration, dialogue) ==
    [title |-> title, duration |-> duration, dialogue |-> dialogue]

\* s.duration || 4
DurationOf(s) == IF s.duration # 0 THEN s.duration ELSE DefaultDuration

\* scenes.map((s, i) => ...): the frame of the scene at index i, counted from 0
NewFrame(s, i) ==
    [id |-> Decimal(now) \o Decimal(i), title |-> s.title, image |-> Undefined,
     duration |-> DurationOf(s), dialogue |-> s.dialogue]

NewFrames(scenes) == [k \in 1..Len(scenes) |-> NewFrame(scenes[k], k - 1)]

\* an asset the director proposes
DirectorAsset(type, name) == [type |-> type, name |-> name]

NewChar(asset) ==
    [id |-> Decimal(now), type |-> asset.type, name |-> asset.name, image |-> Undefined]

AddedAsset(asset) == <<"Added ">> \o asset.type \o <<": ">> \o asset.name

AddedScenes(n) == <<"Added ">> \o Decimal(n) \o <<" scenes to Timeline">>

onDirectorAddAsset(asset) ==
    /\ Len(projectData.references) < MaxAssets
    /\ Updater([projectData EXCEPT !.references = Append(@, NewChar(asset))])
    /\ showNotify(AddedAsset(asset), "success")

onDirectorAddTimeline(scenes) ==
    /\ Updater([projectData EXCEPT !.timeline = @ \o NewFrames(scenes)])
    /\ showNotify(AddedScenes(Len(scenes)), "success")

Scenes == {Scene(IntroTitle, 0, <<>>), Scene(DemoSceneTitle, 6, Hello)}

DirectorAssets == {DirectorAsset(<<"character">>, Hero), DirectorAsset(<<"location">>, Noel)}

Saved == <<"Saved">>

\* a project whose demo scene was deleted, as the editor shows it
EmptyProject ==
    [timeline |-> <<>>, references |-> <<>>, directorHistory |-> INITIAL_VALERA_MESSAGES]

InitStudio ==
    /\ envKey = Undefined
    /\ stored = LongKey
    /\ clientInstance = Null
    /\ call = IdleCall
    /\ apiLog = <<>>
    /\ shellPc = "ready"
    /\ isLoading = FALSE
    /\ hasKey = TRUE
    /\ projectData = EmptyProject
    /\ idb = <<projectData>>
    /\ pending = <<>>
    /\ saveLog = <<>>
    /\ edits = 0
    /\ restores = 0
    /\ savedSince = FALSE
    /\ export = IdleExport
    /\ UiAtRest

NextStudio ==
    \/ \E asset \in DirectorAssets : onDirectorAddAsset(asset)
    \/ \E scenes \in SeqsUpTo(Scenes, MaxBatch) : onDirectorAddTimeline(scenes)
    \/ onNotify(Saved, "info")
    \/ TimerFires
    \/ Tick
    \/ SaveCompletes

SpecStudio == InitStudio /\ [][NextStudio]_vars

-----------------------------------------------------------------------------
(* Properties of the operations that swallow every failure *)

\* the call ended without a response: no client, or a failed last attempt
EndedInFailure ==
    /\ call.pc = "done"
    /\ \/ call.attempts = 0
       \/ (call.settled # <<>> /\ ~call.settled[1].ok)

\* C27: enhancePrompt and generateVoiceDirection never reject; when the
\* credential is missing or the call fails, at once or after the retries
\* are used up, enhancePrompt returns the user input unchanged and
\* generateVoiceDirection the empty string.
C27_NeverReject ==
    /\ (call.pc = "done" /\ call.op \in {"enhancePrompt", "generateVoiceDirection"})
          => call.result.kind = "resolve"
    /\ (EndedInFailure /\ call.op = "enhancePrompt")
          => call.result = Resolve("text", call.input)
    /\ (EndedInFailure /\ call.op = "generateVoiceDirection")
          => call.result = Resolve("text", <<>>)

\* enhancePrompt was called without a credential and returned its input
C27_Witness ==
    /\ ~EnvPresent(envKey)
    /\ ~Truthy(stored)
    /\ call.pc = "done"
    /\ call.op = "enhancePrompt"
    /\ call.attempts = 0
    /\ call.input # <<>>
    /\ call.result = Resolve("text", call.input)

\* generateVoiceDirection used up its retries and returned the empty string
C27_Exhausted ==
    /\ call.pc = "done"
    /\ call.op = "generateVoiceDirection"
    /\ call.attempts = 4
    /\ call.settled = <<Failed(ErrStatus429)>>
    /\ call.result = Resolve("text", <<>>)

-----------------------------------------------------------------------------
(* Properties of the studio *)

Ids(list) == {list[i].id : i \in 1..Len(list)}

Distinct(list) == Cardinality(Ids(list)) = Len(list)

\* what a handler appended to the timeline
Appended == SubSeq(projectData'.timeline, Len(projectData.timeline) + 1,
                   Len(projectData'.timeline))

\* a change of the timeline keeps the frames there were, in their places,
\* and puts one frame per scene behind them, in the order of the scenes
BatchAppended ==
    [][projectData'.timeline # projectData.timeline =>
          /\ Len(projectData'.timeline) > Len(projectData.timeline)
          /\ SubSeq(projectData'.timeline, 1, Len(projectData.timeline))
                = projectData.timeline
          /\ \E scenes \in SeqsUpTo(Scenes, MaxBatch) :
                /\ Len(Appended) = Len(scenes)
                /\ \A k \in 1..Len(scenes) :
                      /\ Appended[k].title = scenes[k].title
                      /\ Appended[k].dialogue = scenes[k].dialogue]_vars

\* C26: after any sequence of director batch inserts and director asset
\* additions, the timeline frames have pairwise distinct identifiers and
\* so have the assets.
C26_DistinctIds ==
    /\ Distinct(projectData.timeline)
    /\ Distinct(projectData.references)

\* C28: a notification leaves the display, without being replaced, only
\* NotifyDelay milliseconds or more after the showNotify call that put it
\* there; the timer of an earlier call does not clear it.
C28_ShownForDelay ==
    [][(notification # NoNotification /\ notification' = NoNotification)
          => now >= notification.at + NotifyDelay]_vars

=============================================================================
